---- MODULE Spec2Model ----
(***************************************************************************)
(* A model of scipy/spatial/transform/rotation.py: the Rotation class, its *)
(* constructors (from_quaternion, from_dcm, from_rotvec, from_euler) and   *)
(* its accessors (as_quaternion, as_dcm, as_rotvec).                       *)
(*                                                                         *)
(* Numbers.  The code computes in 64-bit floats; the model computes in     *)
(* exact real arithmetic on the values it can represent exactly:           *)
(*   - a quaternion row is [num, den2]: the 4 reals num[i] / sqrt(den2),   *)
(*     num integers; den2 = 0 stands for the row 0/0 (NaN);                *)
(*   - a matrix is [m, d]: the 9 rationals m[i][j] / d;                    *)
(*   - an angle is an integer number of quarter turns (q * pi/2 radians),  *)
(*     or an integer number of degrees before deg2rad;                     *)
(*   - a rotation vector row is [c, unit]: the 3 reals c[i] * unit, with   *)
(*     unit either 1e-4 ("e-4") or pi ("pi").                              *)
(* Rounding is not modelled.                                               *)
(***************************************************************************)
EXTENDS Integers, Sequences, FiniteSets, TLC

VARIABLES
    rot,    \* the Rotation object: its _quat rows and its _single flag
    ret,    \* the value the last accessor returned
    err,    \* the exception the last constructor call raised, or "none"
    call    \* the constructor call that was made last, with its arguments

vars == <<rot, ret, err, call>>

\* ------------------------------------------------------------------ bounds

\* quaternion inputs have integer numerators in -MaxCoord..MaxCoord
MaxCoord == 2
\* batches (of quaternions, matrices, rotation vectors, sequences) hold at
\* most MaxBatch rows
MaxBatch == 2
\* matrix inputs: diagonal entries in -MaxDiag..MaxDiag
MaxDiag == 1
\* matrix inputs: off-diagonal parameters in -MaxOff..MaxOff
MaxOff == 1
\* Euler angles are 0..MaxQuarter quarter turns
MaxQuarter == 1

\* ------------------------------------------------------- exact arithmetic

Abs(a) == IF a < 0 THEN -a ELSE a

Sign(a) == IF a < 0 THEN -1 ELSE IF a > 0 THEN 1 ELSE 0

RECURSIVE GCD(_, _)
GCD(a, b) == IF b = 0 THEN a ELSE GCD(b, a % b)

RECURSIVE SumSq(_)
\* the square of the L2 norm of an integer vector
SumSq(v) == IF v = <<>> THEN 0 ELSE Head(v) * Head(v) + SumSq(Tail(v))

RECURSIVE GCDSeq(_)
GCDSeq(v) == IF v = <<>> THEN 0 ELSE GCD(Abs(Head(v)), GCDSeq(Tail(v)))

\* The one representation of the reals num[i] / sqrt(den2): the common
\* factor h of the numerators with h^2 dividing den2 is cancelled.
Canon(r) ==
    LET g == GCDSeq(r.num)
    IN  IF g = 0 \/ r.den2 = 0 THEN r
        ELSE LET h == CHOOSE h \in 1..g :
                        /\ g % h = 0 /\ r.den2 % (h * h) = 0
                        /\ \A h2 \in (h + 1)..g :
                              ~(g % h2 = 0 /\ r.den2 % (h2 * h2) = 0)
             IN  [num |-> [i \in DOMAIN r.num |-> r.num[i] \div h],
                  den2 |-> r.den2 \div (h * h)]

\* 0/0: what a division by a zero norm leaves in every component
NaNRow == [num |-> <<0, 0, 0, 0>>, den2 |-> 0]

IsNaN(r) == r.den2 = 0

\* ||row|| = 0, exactly (norms == 0)
ZeroNorm(r) == SumSq(r.num) = 0

\* ||row|| = 1, exactly
UnitNorm(r) == r.den2 # 0 /\ SumSq(r.num) = r.den2

\* DivideByNorm with the square root forgotten: row / ||row||^2
DivideByNormSquared(r) ==
    IF ZeroNorm(r) \/ IsNaN(r) THEN NaNRow
    ELSE Canon([num |-> [i \in DOMAIN r.num |-> r.num[i] * r.den2],
                den2 |-> SumSq(r.num) * SumSq(r.num) * r.den2])

\* row / ||row||: num/sqrt(den2) divided by sqrt(SumSq(num)/den2)
DivideByNorm(r) ==
    IF ZeroNorm(r) \/ IsNaN(r) THEN NaNRow
    ELSE Canon([num |-> r.num, den2 |-> SumSq(r.num)])

\* -row
Negate(r) == [num |-> [i \in DOMAIN r.num |-> -r.num[i]], den2 |-> r.den2]

\* the same reals in both rows
SameRow(a, b) ==
    /\ ~IsNaN(a) /\ ~IsNaN(b)
    /\ DOMAIN a.num = DOMAIN b.num
    /\ \A i \in DOMAIN a.num :
          /\ Sign(a.num[i]) = Sign(b.num[i])
          /\ a.num[i] * a.num[i] * b.den2 = b.num[i] * b.num[i] * a.den2

\* ------------------------------------------------------------- the object

NoRot == [exists |-> FALSE, quat |-> <<>>, single |-> FALSE]

NoRet == [kind |-> "none", single |-> FALSE, rows |-> <<>>]

NoCall == [op |-> "none"]

\* An array argument is [shape, rows]: its shape and its rows along the last
\* axis (the 3x3 blocks, for a matrix argument), in order.
Ndim(a) == Len(a.shape)

LastDim(a) == a.shape[Len(a.shape)]

\* Rotation_init with the zero-norm rows skipped instead of rejected
Rotation_init_SkipZero(quat, normalized) ==
    IF ~(Ndim(quat) \in {1, 2}) \/ LastDim(quat) # 4
    THEN [ok |-> FALSE, err |-> "ValueError:shape", rot |-> NoRot]
    ELSE [ok |-> TRUE, err |-> "none",
          rot |-> [exists |-> TRUE,
                   quat |-> [n \in DOMAIN quat.rows |->
                                IF ~normalized /\ ~ZeroNorm(quat.rows[n])
                                THEN DivideByNorm(quat.rows[n])
                                ELSE quat.rows[n]],
                   single |-> quat.shape = <<4>>]]

\* Rotation.__init__: [ok, err, rot]
Rotation_init(quat, normalized) ==
    IF ~(Ndim(quat) \in {1, 2}) \/ LastDim(quat) # 4
    THEN [ok |-> FALSE, err |-> "ValueError:shape", rot |-> NoRot]
    ELSE LET single == quat.shape = <<4>>
         IN  IF normalized
             THEN [ok |-> TRUE, err |-> "none",
                   rot |-> [exists |-> TRUE, quat |-> quat.rows,
                            single |-> single]]
             ELSE LET zero_norms ==
                          [n \in DOMAIN quat.rows |-> ZeroNorm(quat.rows[n])]
                  IN  IF \E n \in DOMAIN quat.rows : zero_norms[n]
                      THEN [ok |-> FALSE, err |-> "ValueError:zero_norm",
                            rot |-> NoRot]
                      ELSE [ok |-> TRUE, err |-> "none",
                            rot |-> [exists |-> TRUE,
                                     quat |-> [n \in DOMAIN quat.rows |->
                                         IF ~zero_norms[n]
                                         THEN DivideByNorm(quat.rows[n])
                                         ELSE quat.rows[n]],
                                     single |-> single]]

\* ---------------------------------------------------------- matrix codec

\* dcm[i, j], with the code's indices from 0
E(M, i, j) == M.m[i + 1][j + 1]

\* QuatToDcm with the signs of the off-diagonal terms exchanged (the transpose)
QuatToDcm_Transposed(q) ==
    LET x == q.num[1]
        y == q.num[2]
        z == q.num[3]
        w == q.num[4]
    IN  [m |-> << <<x * x - y * y - z * z + w * w, 2 * (x * y + z * w),
                    2 * (x * z - y * w)>>,
                  <<2 * (x * y - z * w), -x * x + y * y - z * z + w * w,
                    2 * (y * z + x * w)>>,
                  <<2 * (x * z + y * w), 2 * (y * z - x * w),
                    -x * x - y * y + z * z + w * w>> >>,
         d |-> q.den2]

\* as_dcm, one row of _quat
QuatToDcm(q) ==
    LET x == q.num[1]
        y == q.num[2]
        z == q.num[3]
        w == q.num[4]
        x2 == x * x
        y2 == y * y
        z2 == z * z
        w2 == w * w
        xy == x * y
        zw == z * w
        xz == x * z
        yw == y * w
        yz == y * z
        xw == x * w
    IN  [m |-> << <<x2 - y2 - z2 + w2, 2 * (xy - zw), 2 * (xz + yw)>>,
                  <<2 * (xy + zw), -x2 + y2 - z2 + w2, 2 * (yz - xw)>>,
                  <<2 * (xz - yw), 2 * (yz + xw), -x2 - y2 + z2 + w2>> >>,
         d |-> q.den2]

\* decision_matrix, one row: the numerators of [M00, M11, M22, trace]
DecisionRow(M) ==
    <<E(M, 0, 0), E(M, 1, 1), E(M, 2, 2),
      E(M, 0, 0) + E(M, 1, 1) + E(M, 2, 2)>>

\* argmax: the first index, from 0, of the largest entry
ArgMax(v) ==
    CHOOSE c \in 0..(Len(v) - 1) :
        /\ \A e \in 0..(Len(v) - 1) : v[e + 1] <= v[c + 1]
        /\ \A e \in 0..(c - 1) : v[e + 1] < v[c + 1]

\* Choice with the trace branch taken for every matrix
Choice_AlwaysTrace(M) == 3

\* choices, one row
Choice(M) == ArgMax(DecisionRow(M))

\* QuatDiagBranch with the scalar part's difference reversed
QuatDiagBranch_Reversed(M, i) ==
    LET j == (i + 1) % 3
        k == (j + 1) % 3
        f == [c \in 0..3 |->
                 IF c = i THEN M.d - DecisionRow(M)[4] + 2 * E(M, i, i)
                 ELSE IF c = j THEN E(M, j, i) + E(M, i, j)
                 ELSE IF c = k THEN E(M, k, i) + E(M, i, k)
                 ELSE E(M, j, k) - E(M, k, j)]
    IN  [num |-> <<f[0], f[1], f[2], f[3]>>, den2 |-> M.d * M.d]

\* the row written for choices != 3: numerators over M.d
QuatDiagBranch(M, i) ==
    LET j == (i + 1) % 3
        k == (j + 1) % 3
        f == [c \in 0..3 |->
                 IF c = i THEN M.d - DecisionRow(M)[4] + 2 * E(M, i, i)
                 ELSE IF c = j THEN E(M, j, i) + E(M, i, j)
                 ELSE IF c = k THEN E(M, k, i) + E(M, i, k)
                 ELSE E(M, k, j) - E(M, j, k)]
    IN  [num |-> <<f[0], f[1], f[2], f[3]>>, den2 |-> M.d * M.d]

\* the row written for choices == 3: numerators over M.d
QuatTraceBranch(M) ==
    [num |-> <<E(M, 2, 1) - E(M, 1, 2),
               E(M, 0, 2) - E(M, 2, 0),
               E(M, 1, 0) - E(M, 0, 1),
               M.d + DecisionRow(M)[4]>>,
     den2 |-> M.d * M.d]

\* the rows the first branch writes
IndDiag(mats) == {n \in DOMAIN mats : Choice(mats[n]) # 3}

\* the rows the second branch writes
IndTrace(mats) == {n \in DOMAIN mats : Choice(mats[n]) = 3}

\* np.empty: a row nothing has written yet
Unwritten == [num |-> <<0, 0, 0, 0>>, den2 |-> 0]

\* quat before the division by its norm
PreQuat(mats) ==
    LET quat0 == [n \in DOMAIN mats |-> Unwritten]
        quat1 == [n \in DOMAIN mats |->
                     IF n \in IndDiag(mats)
                     THEN QuatDiagBranch(mats[n], Choice(mats[n]))
                     ELSE quat0[n]]
    IN  [n \in DOMAIN mats |->
            IF n \in IndTrace(mats) THEN QuatTraceBranch(mats[n])
            ELSE quat1[n]]

\* from_dcm: [ok, err, rot]
FromDcm(dcm) ==
    IF ~(Ndim(dcm) \in {2, 3})
       \/ <<dcm.shape[Len(dcm.shape) - 1], dcm.shape[Len(dcm.shape)]>> # <<3, 3>>
    THEN [ok |-> FALSE, err |-> "ValueError:shape", rot |-> NoRot]
    ELSE LET is_single == dcm.shape = <<3, 3>>
             pre == PreQuat(dcm.rows)
             quat == [n \in DOMAIN pre |-> DivideByNorm(pre[n])]
         IN  IF is_single
             THEN Rotation_init([shape |-> <<4>>, rows |-> quat], TRUE)
             ELSE Rotation_init([shape |-> <<Len(quat), 4>>, rows |-> quat],
                                TRUE)

\* ------------------------------------------------- rotation-vector codec

\* sin and cos of q quarter turns (q * pi/2)
SinQ(q) == IF q % 4 = 1 THEN 1 ELSE IF q % 4 = 3 THEN -1 ELSE 0

CosQ(q) == IF q % 4 = 0 THEN 1 ELSE IF q % 4 = 2 THEN -1 ELSE 0

\* the integer k with k * k = n, or -1
ISqrt(n) ==
    IF \E k \in 0..n : k * k = n THEN CHOOSE k \in 0..n : k * k = n ELSE -1

\* the bound 1e-3 of small_angle, in units of 1e-4
SmallAngleE4 == 10

\* A row the model holds as a term, its reals being transcendental:
\* sym = "taylor": ((0.5 - n^2/48 + n^4/3840) * v, cos(n/2)),
\* sym = "sin":    ((sin(n/2) / n) * v, cos(n/2)),  v = c * unit, n = ||v||.
IsExact(r) == "num" \in DOMAIN r

\* SmallAngle with norms < 1e-3
SmallAngle_Strict(v) ==
    IF v.unit = "e-4" THEN SumSq(v.c) < SmallAngleE4 * SmallAngleE4
    ELSE SumSq(v.c) < 0

\* norms <= 1e-3, one row: ||c|| * unit <= 1e-3. With unit pi, only c = 0.
SmallAngle(v) ==
    IF v.unit = "e-4" THEN SumSq(v.c) <= SmallAngleE4 * SmallAngleE4
    ELSE SumSq(v.c) <= 0

\* scale, one row: which of the two assignments wrote it
RotvecScale(v) ==
    IF SmallAngle(v) THEN [f |-> "taylor", n2 |-> SumSq(v.c), unit |-> v.unit]
    ELSE [f |-> "sin_over_norm", n2 |-> SumSq(v.c), unit |-> v.unit]

\* quat, one row: (scale * rotvec, cos(norms / 2))
RotvecQuat(v) ==
    LET scale == RotvecScale(v)
        k == ISqrt(scale.n2)
    IN  IF scale.f = "taylor"
        THEN IF scale.n2 = 0
             \* scale = 1/2 and cos(0) = 1
             THEN Canon([num |-> <<v.c[1], v.c[2], v.c[3], 2>>, den2 |-> 4])
             ELSE [sym |-> "taylor", c |-> v.c, unit |-> v.unit]
        ELSE IF scale.n2 = 0
             \* sin(0) / 0
             THEN NaNRow
             ELSE IF v.unit = "pi" /\ k > 0
                  \* norms = k * pi: sin(k pi/2) / (k pi) * c * pi, cos(k pi/2)
                  THEN Canon([num |-> <<SinQ(k) * v.c[1], SinQ(k) * v.c[2],
                                        SinQ(k) * v.c[3], k * CosQ(k)>>,
                              den2 |-> k * k])
                  ELSE [sym |-> "sin", c |-> v.c, unit |-> v.unit]

\* from_rotvec: [ok, err, rot]
FromRotvec(rotvec) ==
    IF ~(Ndim(rotvec) \in {1, 2}) \/ LastDim(rotvec) # 3
    THEN [ok |-> FALSE, err |-> "ValueError:shape", rot |-> NoRot]
    ELSE LET is_single == rotvec.shape = <<3>>
             quat == [n \in DOMAIN rotvec.rows |-> RotvecQuat(rotvec.rows[n])]
         IN  IF is_single
             THEN Rotation_init([shape |-> <<4>>, rows |-> quat], TRUE)
             ELSE Rotation_init([shape |-> <<Len(quat), 4>>, rows |-> quat],
                                TRUE)

\* as_rotvec, one row of _quat: the copy's sign flipped for w < 0, then
\* scale * (x, y, z) with angle = 2 atan2(||(x, y, z)||, w); the row is
\* returned as the term [small_angle, angle, vec], except for angle = 0,
\* where scale = 2 exactly. angle <= 1e-3 is tan(angle / 2) <= tan(5e-4):
\* for numerators below 1999 that is x = y = z = 0.
QuatToRotvec(q) ==
    LET quat == IF q.num[4] < 0 THEN Negate(q) ELSE q
        s2 == SumSq(SubSeq(quat.num, 1, 3))
        w == quat.num[4]
        small_angle == s2 = 0 \/ (w > 0 /\ (w * w) \div 4000000 >= s2)
    IN  IF s2 = 0
        THEN [c |-> <<2 * quat.num[1], 2 * quat.num[2], 2 * quat.num[3]>>,
              unit |-> "e-4"]
        ELSE [small_angle |-> small_angle,
              angle |-> [atan2_y2 |-> s2, atan2_x |-> w, den2 |-> quat.den2],
              vec |-> [num |-> SubSeq(quat.num, 1, 3), den2 |-> quat.den2]]

\* ------------------------------------------------------------ Euler codec

\* the {1,3} of the two patterns
MaxAxes == 3

\* np.eye(3)
Eye3 == [m |-> << <<1, 0, 0>>, <<0, 1, 0>>, <<0, 0, 1>> >>, d |-> 1]

\* dcm.transpose()
Transpose(A) ==
    [m |-> [i \in 1..3 |-> [j \in 1..3 |-> A.m[j][i]]], d |-> A.d]

\* Einsum_ij_jk with the operands exchanged: out[i, k] = sum_j B[i, j] A[j, k]
Einsum_ij_jk_Exchanged(A, B) ==
    [m |-> [i \in 1..3 |-> [k \in 1..3 |->
               B.m[i][1] * A.m[1][k] + B.m[i][2] * A.m[2][k]
               + B.m[i][3] * A.m[3][k]]],
     d |-> A.d * B.d]

\* np.einsum('...ij,...jk->...ik', A, B): out[i, k] = sum_j A[i, j] B[j, k]
Einsum_ij_jk(A, B) ==
    [m |-> [i \in 1..3 |-> [k \in 1..3 |->
               A.m[i][1] * B.m[1][k] + A.m[i][2] * B.m[2][k]
               + A.m[i][3] * B.m[3][k]]],
     d |-> A.d * B.d]

\* np.einsum('...ij,...ik->...ik', A, B): out[i, k] = sum_j A[i, j] B[i, k]
Einsum_ij_ik(A, B) ==
    [m |-> [i \in 1..3 |-> [k \in 1..3 |->
               (A.m[i][1] + A.m[i][2] + A.m[i][3]) * B.m[i][k]]],
     d |-> A.d * B.d]

\* char.lower()
Lower(char) ==
    IF char = "X" THEN "x" ELSE IF char = "Y" THEN "y"
    ELSE IF char = "Z" THEN "z" ELSE IF char = "A" THEN "a" ELSE char

\* _make_dcm_from_angle: [ok, err, dcm]; with no branch taken, dcm is read
\* before it is bound
make_dcm_from_angle(char, angle, intrinsic) ==
    LET sinx == SinQ(angle)
        cosx == CosQ(angle)
        axis == Lower(char)
        bound == axis \in {"x", "y", "z"}
        dcm == IF axis = "z"
               THEN [m |-> << <<cosx, -sinx, 0>>, <<sinx, cosx, 0>>, <<0, 0, 1>> >>,
                     d |-> 1]
               ELSE IF axis = "y"
               THEN [m |-> << <<cosx, 0, sinx>>, <<0, 1, 0>>, <<-sinx, 0, cosx>> >>,
                     d |-> 1]
               ELSE [m |-> << <<1, 0, 0>>, <<0, cosx, -sinx>>, <<0, sinx, cosx>> >>,
                     d |-> 1]
    IN  IF ~bound THEN [ok |-> FALSE, err |-> "UnboundLocalError", dcm |-> Eye3]
        ELSE [ok |-> TRUE, err |-> "none",
              dcm |-> IF intrinsic THEN Transpose(dcm) ELSE dcm]

\* pattern.match(axis_str) is not None, for "^[xyz]{1,3}$" and "^[XYZ]{1,3}$":
\* 1 to 3 letters of the class, then the end of the string or one newline
\* that ends it
Match(class, axis_str) ==
    LET n == Len(axis_str)
        body == IF n > 0 /\ axis_str[n] = "\n" THEN SubSeq(axis_str, 1, n - 1)
                ELSE axis_str
    IN  /\ Len(body) \in 1..MaxAxes
        /\ \A i \in DOMAIN body : body[i] \in class

extrinsic(axis_str) == Match({"x", "y", "z"}, axis_str)

intrinsic(axis_str) == Match({"X", "Y", "Z"}, axis_str)

RECURSIVE PreMultiply(_, _, _, _)
\* the extrinsic loop from index ind on: [ok, err, dcm]
PreMultiply(axis_str, angle, ind, dcm) ==
    IF ind > Len(axis_str) THEN [ok |-> TRUE, err |-> "none", dcm |-> dcm]
    ELSE LET r == make_dcm_from_angle(axis_str[ind], angle[ind], FALSE)
         IN  IF ~r.ok THEN r
             ELSE PreMultiply(axis_str, angle, ind + 1, Einsum_ij_jk(r.dcm, dcm))

RECURSIVE PostMultiply(_, _, _, _)
\* the intrinsic loop from index ind on: [ok, err, dcm]
PostMultiply(axis_str, angle, ind, dcm) ==
    IF ind > Len(axis_str) THEN [ok |-> TRUE, err |-> "none", dcm |-> dcm]
    ELSE LET r == make_dcm_from_angle(axis_str[ind], angle[ind], TRUE)
         IN  IF ~r.ok THEN r
             ELSE PostMultiply(axis_str, angle, ind + 1, Einsum_ij_ik(dcm, r.dcm))

\* _make_dcm_from_euler(axis_str, angle), angle a vector: [ok, err, dcm]
make_dcm_from_euler(axis_str, angle) ==
    IF Len(axis_str) # Len(angle)
    THEN [ok |-> FALSE, err |-> "ValueError:shape", dcm |-> Eye3]
    ELSE IF ~extrinsic(axis_str) /\ ~intrinsic(axis_str)
    THEN [ok |-> FALSE, err |-> "ValueError:sequence", dcm |-> Eye3]
    ELSE IF extrinsic(axis_str) THEN PreMultiply(axis_str, angle, 1, Eye3)
    ELSE IF intrinsic(axis_str) THEN PostMultiply(axis_str, angle, 1, Eye3)
    ELSE [ok |-> TRUE, err |-> "none", dcm |-> Eye3]

\* np.deg2rad on multiples of 90 degrees, in quarter turns
Deg2Rad(a) == a \div 90

\* from_euler: seq is [str, val]: a str (val its characters) or a list of
\* strs (val the list); angle_mat is [shape, rows]. [ok, err, rot]
FromEuler(seq, angle_mat0, deg) ==
    LET angle_mat ==
            IF deg
            THEN [shape |-> angle_mat0.shape,
                  rows |-> [n \in DOMAIN angle_mat0.rows |->
                               [i \in DOMAIN angle_mat0.rows[n] |->
                                   Deg2Rad(angle_mat0.rows[n][i])]]]
            ELSE angle_mat0
    IN  IF Ndim(angle_mat) = 0
        \* angle_mat.shape[0] of an array of shape ()
        THEN [ok |-> FALSE, err |-> "IndexError", rot |-> NoRot]
        ELSE IF seq.str
        THEN IF Len(seq.val) # angle_mat.shape[1] \/ Ndim(angle_mat) # 1
             THEN [ok |-> FALSE, err |-> "ValueError:shape", rot |-> NoRot]
             ELSE LET r == make_dcm_from_euler(seq.val, angle_mat.rows[1])
                  IN  IF ~r.ok THEN [ok |-> FALSE, err |-> r.err, rot |-> NoRot]
                      ELSE FromDcm([shape |-> <<3, 3>>, rows |-> <<r.dcm>>])
        ELSE IF Len(seq.val) # angle_mat.shape[1]
        THEN [ok |-> FALSE, err |-> "ValueError:shape", rot |-> NoRot]
        ELSE IF Ndim(angle_mat) # 2 \/ LastDim(angle_mat) # 3
        THEN [ok |-> FALSE, err |-> "ValueError:shape", rot |-> NoRot]
        ELSE LET num_rotations == Len(seq.val)
                 made == [n \in 1..num_rotations |->
                             make_dcm_from_euler(seq.val[n], angle_mat.rows[n])]
             IN  IF \E n \in 1..num_rotations : ~made[n].ok
                 THEN LET first == CHOOSE n \in 1..num_rotations :
                                      /\ ~made[n].ok
                                      /\ \A n2 \in 1..(n - 1) : made[n2].ok
                      IN  [ok |-> FALSE, err |-> made[first].err, rot |-> NoRot]
                 ELSE FromDcm([shape |-> <<num_rotations, 3, 3>>,
                               rows |-> [n \in 1..num_rotations |-> made[n].dcm]])

\* ------------------------------------------------------------------ inputs

Coords == (-MaxCoord)..MaxCoord

\* the integer rows (x, y, z, w), and the same rows scaled to unit norm
QuatRows ==
    LET ints == {[num |-> <<x, y, z, w>>, den2 |-> 1] :
                    x \in Coords, y \in Coords, z \in Coords, w \in Coords}
    IN  ints \cup {[num |-> r.num, den2 |-> SumSq(r.num)] :
                      r \in {s \in ints : ~ZeroNorm(s)}}

\* the rows batches are made of
QuatPool ==
    {[num |-> <<0, 0, 0, 0>>, den2 |-> 1], [num |-> <<0, 0, 0, 1>>, den2 |-> 1],
     [num |-> <<2, -1, 0, 0>>, den2 |-> 1], [num |-> <<0, 1, -2, 1>>, den2 |-> 6],
     [num |-> <<-1, 1, 1, -1>>, den2 |-> 4]}

RECURSIVE SeqsUpTo(_, _)
\* the sequences over S of length at most n
SeqsUpTo(S, n) ==
    IF n = 0 THEN {<<>>}
    ELSE LET shorter == SeqsUpTo(S, n - 1)
         IN  shorter \cup {Append(s, x) : s \in {t \in shorter : Len(t) = n - 1},
                                          x \in S}

QuatInputs ==
    {[shape |-> <<4>>, rows |-> <<r>>] : r \in QuatRows}
    \cup {[shape |-> <<Len(b), 4>>, rows |-> b] : b \in SeqsUpTo(QuatPool, MaxBatch)}
    \cup {[shape |-> <<>>, rows |-> <<>>],
          [shape |-> <<5>>, rows |-> <<[num |-> <<0, 0, 0, 1, 0>>, den2 |-> 1]>>],
          [shape |-> <<3>>, rows |-> <<[num |-> <<0, 0, 1>>, den2 |-> 1]>>],
          [shape |-> <<1, 3>>, rows |-> <<[num |-> <<0, 0, 1>>, den2 |-> 1]>>],
          [shape |-> <<1, 1, 4>>, rows |-> <<[num |-> <<0, 0, 0, 1>>, den2 |-> 1]>>]}

\* [[d1, p, q], [q, d2, r], [r, p, d3]]
Mat(d1, d2, d3, p, q, r) ==
    [m |-> << <<d1, p, q>>, <<q, d2, r>>, <<r, p, d3>> >>, d |-> 1]

Diags == (-MaxDiag)..MaxDiag

Offs == (-MaxOff)..MaxOff

DcmRows ==
    {Mat(d1, d2, d3, p, q, r) :
        d1 \in Diags, d2 \in Diags, d3 \in Diags, p \in Offs, q \in Offs, r \in Offs}

\* the matrices batches are made of: one for each branch, and the zero matrix
DcmPool ==
    {Mat(1, 1, 1, 0, 0, 0), Mat(1, -1, -1, 0, 0, 0), Mat(-1, 1, -1, 0, 0, 0),
     Mat(-1, -1, 1, 0, 0, 0), Mat(0, 0, 0, 0, 0, 0), Mat(0, 1, 0, 1, 0, -1)}

DcmInputs ==
    {[shape |-> <<3, 3>>, rows |-> <<M>>] : M \in DcmRows}
    \cup {[shape |-> <<Len(b), 3, 3>>, rows |-> b] : b \in SeqsUpTo(DcmPool, MaxBatch)}
    \cup {[shape |-> <<>>, rows |-> <<>>], [shape |-> <<3>>, rows |-> <<>>],
          [shape |-> <<3, 4>>, rows |-> <<>>], [shape |-> <<4, 3>>, rows |-> <<>>],
          [shape |-> <<1, 1, 3, 3>>, rows |-> <<Mat(1, 1, 1, 0, 0, 0)>>]}

\* rotation vector rows: zero, norms below, at and above 1e-3, and k * pi
RotvecCoords == {-8, 0, 1, 2, 6, 8, 10}

RotvecRows ==
    {[c |-> <<a, b, c>>, unit |-> u] :
        a \in RotvecCoords, b \in RotvecCoords, c \in RotvecCoords,
        u \in {"e-4", "pi"}}

RotvecPool ==
    {[c |-> <<0, 0, 0>>, unit |-> "e-4"], [c |-> <<6, 0, 8>>, unit |-> "e-4"],
     [c |-> <<6, 1, 8>>, unit |-> "e-4"], [c |-> <<0, 1, 0>>, unit |-> "pi"],
     [c |-> <<0, 1, 0>>, unit |-> "e-4"]}

RotvecInputs ==
    {[shape |-> <<3>>, rows |-> <<v>>] : v \in RotvecRows}
    \cup {[shape |-> <<Len(b), 3>>, rows |-> b] :
             b \in SeqsUpTo(RotvecPool, MaxBatch)}
    \cup {[shape |-> <<>>, rows |-> <<>>], [shape |-> <<4>>, rows |-> <<>>],
          [shape |-> <<3, 4>>, rows |-> <<>>], [shape |-> <<1, 1, 3>>, rows |-> <<>>]}

Letters == {"x", "y", "z", "X", "Y", "Z"}

Alphabet == Letters \cup {"a", "\n"}

\* the strings of at most MaxAxes characters, and longer ones
StrInputs ==
    SeqsUpTo(Alphabet, MaxAxes)
    \cup {Append(s, ch) : s \in {t \in SeqsUpTo(Letters, MaxAxes) : Len(t) = MaxAxes},
                          ch \in Alphabet}

Quarters == 0..MaxQuarter

AngleInputs ==
    {[shape |-> <<Len(v)>>, rows |-> <<v>>] : v \in SeqsUpTo(Quarters, MaxAxes)}
    \cup {[shape |-> <<4>>, rows |-> << <<0, 0, 0, 0>> >>],
          [shape |-> <<>>, rows |-> << <<1>> >>],
          [shape |-> <<1, 3>>, rows |-> << <<1, 0, 0>> >>],
          [shape |-> <<3, 3>>, rows |-> << <<0, 0, 0>>, <<0, 0, 0>>, <<0, 0, 0>> >>]}

\* the strs lists are made of
StrPool ==
    {<<"x", "y", "z">>, <<"Z", "Y", "X">>, <<"z", "x", "z">>, <<"x", "Y", "z">>,
     <<"x", "y">>, <<"x", "y", "\n">>}

AnglePool == {<<1, 0, 0>>, <<1, 1, 0>>, <<0, 1, 1>>}

BatchAngleInputs ==
    {[shape |-> <<Len(b), 3>>, rows |-> b] : b \in SeqsUpTo(AnglePool, MaxBatch)}
    \cup {[shape |-> <<>>, rows |-> << <<1>> >>],
          [shape |-> <<1>>, rows |-> << <<1>> >>],
          [shape |-> <<2>>, rows |-> << <<1, 0>> >>],
          [shape |-> <<1, 2>>, rows |-> << <<1, 0>> >>],
          [shape |-> <<2, 2>>, rows |-> << <<1, 0>>, <<0, 1>> >>]}

\* the same angles, in degrees
InDegrees(a) ==
    [shape |-> a.shape,
     rows |-> [n \in DOMAIN a.rows |->
                  [i \in DOMAIN a.rows[n] |-> 90 * a.rows[n][i]]]]

\* ----------------------------------------------------------------- actions

Idle == call.op = "none"

Construct(res, c) ==
    /\ rot' = res.rot
    /\ err' = res.err
    /\ ret' = NoRet
    /\ call' = c

\* Rotation.from_quaternion(quat, normalized)
from_quaternion ==
    /\ Idle
    /\ \E quat \in QuatInputs, normalized \in BOOLEAN :
          Construct(Rotation_init(quat, normalized),
                    [op |-> "from_quaternion", quat |-> quat,
                     normalized |-> normalized])

\* Rotation.from_dcm(dcm), dcm an argument of the caller's
from_dcm ==
    /\ Idle
    /\ \E dcm \in DcmInputs :
          Construct(FromDcm(dcm), [op |-> "from_dcm", dcm |-> dcm, of |-> NoRot])

\* Rotation.from_dcm(r.as_dcm()): the matrix as_dcm has just returned
from_dcm_of_as_dcm ==
    /\ rot.exists
    /\ ret.kind = "dcm"
    /\ LET dcm == [shape |-> IF ret.single THEN <<3, 3>>
                             ELSE <<Len(ret.rows), 3, 3>>,
                   rows |-> ret.rows]
       IN  Construct(FromDcm(dcm), [op |-> "from_dcm", dcm |-> dcm, of |-> rot])

\* Rotation.from_rotvec(rotvec)
from_rotvec ==
    /\ Idle
    /\ \E rotvec \in RotvecInputs :
          Construct(FromRotvec(rotvec), [op |-> "from_rotvec", rotvec |-> rotvec])

\* Rotation.from_euler(seq, angle_mat, deg), seq a str
from_euler ==
    /\ Idle
    /\ \E s \in StrInputs, a \in AngleInputs, deg \in BOOLEAN :
          LET seq == [str |-> TRUE, val |-> s]
              angle_mat == IF deg THEN InDegrees(a) ELSE a
          IN  Construct(FromEuler(seq, angle_mat, deg),
                        [op |-> "from_euler", seq |-> seq, angles |-> a,
                         angle_mat |-> angle_mat, deg |-> deg])

\* Rotation.from_euler(seq, angle_mat, deg), seq a list of strs
from_euler_batch ==
    /\ Idle
    /\ \E l \in SeqsUpTo(StrPool, MaxBatch), a \in BatchAngleInputs,
          deg \in BOOLEAN :
          LET seq == [str |-> FALSE, val |-> l]
              angle_mat == IF deg THEN InDegrees(a) ELSE a
          IN  Construct(FromEuler(seq, angle_mat, deg),
                        [op |-> "from_euler", seq |-> seq, angles |-> a,
                         angle_mat |-> angle_mat, deg |-> deg])

\* as_quaternion: _quat[0] of a single rotation, _quat of a batch
AsQuaternion(r) == [kind |-> "quat", single |-> r.single, rows |-> r.quat]

\* r.as_quaternion()
as_quaternion ==
    /\ rot.exists
    /\ ret' = AsQuaternion(rot)
    /\ UNCHANGED <<rot, err, call>>

\* r.as_dcm()
as_dcm ==
    /\ rot.exists
    /\ \A n \in DOMAIN rot.quat : IsExact(rot.quat[n]) /\ ~IsNaN(rot.quat[n])
    /\ ret' = [kind |-> "dcm", single |-> rot.single,
               rows |-> [n \in DOMAIN rot.quat |-> QuatToDcm(rot.quat[n])]]
    /\ UNCHANGED <<rot, err, call>>

\* r.as_rotvec()
as_rotvec ==
    /\ rot.exists
    /\ \A n \in DOMAIN rot.quat : IsExact(rot.quat[n]) /\ ~IsNaN(rot.quat[n])
    /\ ret' = [kind |-> "rotvec", single |-> rot.single,
               rows |-> [n \in DOMAIN rot.quat |-> QuatToRotvec(rot.quat[n])]]
    /\ UNCHANGED <<rot, err, call>>

\* the caller drops the object, or handles the exception
Release ==
    /\ ~Idle
    /\ rot' = NoRot
    /\ ret' = NoRet
    /\ err' = "none"
    /\ call' = NoCall

Init ==
    /\ rot = NoRot
    /\ ret = NoRet
    /\ err = "none"
    /\ call = NoCall

Next ==
    \/ from_quaternion
    \/ from_dcm
    \/ from_dcm_of_as_dcm
    \/ from_rotvec
    \/ from_euler
    \/ from_euler_batch
    \/ as_quaternion
    \/ as_dcm
    \/ as_rotvec
    \/ Release

Spec == Init /\ [][Next]_vars

\* ------------------------------------------------------------------ claims

\* the argument of the last from_dcm call passed the shape check
DcmCall ==
    /\ call.op = "from_dcm"
    /\ call.dcm.shape = <<3, 3>> \/ call.dcm.shape = <<Len(call.dcm.rows), 3, 3>>

\* a is b or -b
SameUpToSign(a, b) == SameRow(a, b) \/ SameRow(a, Negate(b))

\* the last call was from_dcm(r.as_dcm()) for a rotation r of unit quaternions
RoundTrip ==
    /\ call.op = "from_dcm"
    /\ call.of.exists
    /\ \A n \in DOMAIN call.of.quat : UnitNorm(call.of.quat[n])

\* C1: for unit quaternions q (one, or the rows of a batch),
\* from_dcm(from_quaternion(q).as_dcm()).as_quaternion() is q or -q, row by
\* row and with the arity of q, whichever branch from_dcm takes.
C1_RoundTripThroughDcm ==
    RoundTrip =>
        /\ rot.exists
        /\ err = "none"
        /\ AsQuaternion(rot).single = AsQuaternion(call.of).single
        /\ DOMAIN AsQuaternion(rot).rows = DOMAIN AsQuaternion(call.of).rows
        /\ \A n \in DOMAIN call.of.quat :
              SameUpToSign(AsQuaternion(rot).rows[n], AsQuaternion(call.of).rows[n])

\* a batch round trip whose first row took a diagonal branch and came back as
\* -q, and whose second row took the trace branch
C1_Witness ==
    /\ RoundTrip
    /\ Len(rot.quat) = 2 /\ ~rot.single
    /\ Choice(call.dcm.rows[1]) \in {0, 1, 2}
    /\ Choice(call.dcm.rows[2]) = 3
    /\ SameRow(rot.quat[1], Negate(call.of.quat[1]))
    /\ ~SameRow(rot.quat[1], call.of.quat[1])

\* the largest of the decision values, and the first index that attains it
MaxOf(v) == CHOOSE x \in {v[i] : i \in DOMAIN v} : \A i \in DOMAIN v : v[i] <= x

FirstMax(v) == CHOOSE c \in 0..3 : v[c + 1] = MaxOf(v) /\ \A e \in 0..(c - 1) : v[e + 1] # MaxOf(v)

\* the quaternion of the claim for matrix M, as numerators over M.d
C9_Expected(M) ==
    LET tr == E(M, 0, 0) + E(M, 1, 1) + E(M, 2, 2)
        c == FirstMax(<<E(M, 0, 0), E(M, 1, 1), E(M, 2, 2), tr>>)
    IN  IF c = 0
        THEN <<M.d - tr + 2 * E(M, 0, 0), E(M, 1, 0) + E(M, 0, 1),
               E(M, 2, 0) + E(M, 0, 2), E(M, 2, 1) - E(M, 1, 2)>>
        ELSE IF c = 1
        THEN <<E(M, 0, 1) + E(M, 1, 0), M.d - tr + 2 * E(M, 1, 1),
               E(M, 2, 1) + E(M, 1, 2), E(M, 0, 2) - E(M, 2, 0)>>
        ELSE IF c = 2
        THEN <<E(M, 0, 2) + E(M, 2, 0), E(M, 1, 2) + E(M, 2, 1),
               M.d - tr + 2 * E(M, 2, 2), E(M, 1, 0) - E(M, 0, 1)>>
        ELSE <<E(M, 2, 1) - E(M, 1, 2), E(M, 0, 2) - E(M, 2, 0),
               E(M, 1, 0) - E(M, 0, 1), M.d + tr>>

\* C9: from_dcm computes, for each matrix of the batch on its own, the
\* quaternion of the branch the first maximum of [M00, M11, M22, trace]
\* selects, every row being written by exactly one of the two branches; the
\* stored row is that quaternion divided by its norm.
C9_BranchSelection ==
    DcmCall =>
        LET mats == call.dcm.rows
        IN  /\ IndDiag(mats) \cup IndTrace(mats) = DOMAIN mats
            /\ IndDiag(mats) \cap IndTrace(mats) = {}
            /\ rot.exists /\ DOMAIN rot.quat = DOMAIN mats
            /\ \A n \in DOMAIN mats :
                  /\ PreQuat(mats)[n].num = C9_Expected(mats[n])
                  /\ PreQuat(mats)[n].den2 = mats[n].d * mats[n].d
                  /\ PreQuat(mats)[n] = PreQuat(<<mats[n]>>)[1]
                  /\ UnitNorm(rot.quat[n])
                  /\ \A i, j \in 1..4 :
                        rot.quat[n].num[i] * C9_Expected(mats[n])[j]
                            = rot.quat[n].num[j] * C9_Expected(mats[n])[i]
                  /\ \A i \in 1..4 :
                        Sign(rot.quat[n].num[i]) = Sign(C9_Expected(mats[n])[i])

\* a batch of two with one row for each branch, the first with off-diagonal
\* entries that differ
C9_Witness ==
    /\ DcmCall /\ rot.exists
    /\ Len(call.dcm.rows) = 2
    /\ Choice(call.dcm.rows[1]) = 1
    /\ E(call.dcm.rows[1], 0, 1) # E(call.dcm.rows[1], 1, 0)
    /\ Choice(call.dcm.rows[2]) = 3

\* C10: for every matrix from_dcm is given, the component the selected
\* branch writes (1 - trace + 2 M[i, i], or 1 + trace) is at least 1, so the
\* quaternion it divides by its norm is not zero and no stored row is 0/0.
C10_NoZeroNorm ==
    DcmCall =>
        /\ rot.exists
        /\ \A n \in DOMAIN call.dcm.rows :
              LET M == call.dcm.rows[n]
                  c == Choice(M)
                  pre == PreQuat(call.dcm.rows)[n]
              IN  /\ M.d > 0
                  /\ pre.num[c + 1] >= M.d
                  /\ ~ZeroNorm(pre)
                  /\ ~IsNaN(rot.quat[n])

\* from_dcm of the zero matrix, and of a matrix whose trace is negative
C10_Witness ==
    /\ DcmCall /\ rot.exists
    /\ Len(call.dcm.rows) = 2
    /\ call.dcm.rows[1] = Mat(0, 0, 0, 0, 0, 0)
    /\ DecisionRow(call.dcm.rows[2])[4] < 0

\* the argument of the last from_quaternion call has shape (4,) or (N, 4)
QuatShapeOk(quat) ==
    \/ quat.shape = <<4>>
    \/ Len(quat.shape) = 2 /\ quat.shape[2] = 4

\* a is b scaled by a positive real
PositiveMultiple(a, b) ==
    /\ \A i, j \in DOMAIN a.num : a.num[i] * b.num[j] = a.num[j] * b.num[i]
    /\ \A i \in DOMAIN a.num : Sign(a.num[i]) = Sign(b.num[i])

\* from_quaternion rejects the argument of the last call, by the claim
C6_Rejected ==
    \/ ~QuatShapeOk(call.quat)
    \/ /\ ~call.normalized
       /\ \E n \in DOMAIN call.quat.rows : SumSq(call.quat.rows[n].num) = 0

\* from_quaternion raises, and makes no Rotation, exactly when C6_Rejected
C6_RaisesExactly ==
    /\ C6_Rejected <=> (err # "none")
    /\ C6_Rejected <=> ~rot.exists
    /\ ~QuatShapeOk(call.quat) => err = "ValueError:shape"
    /\ (QuatShapeOk(call.quat) /\ C6_Rejected) => err = "ValueError:zero_norm"
    /\ ~C6_Rejected =>
          /\ DOMAIN rot.quat = DOMAIN call.quat.rows
          /\ rot.single = (call.quat.shape = <<4>>)

\* C6 as stated: from_quaternion raises, and makes no Rotation, exactly when
\* the shape is neither (4,) nor (N, 4), or normalized is false and some row
\* has norm zero; in every other case each row is stored divided by its own
\* norm.
C6_Original ==
    call.op = "from_quaternion" =>
        /\ C6_RaisesExactly
        /\ ~C6_Rejected =>
              \A n \in DOMAIN call.quat.rows :
                  /\ UnitNorm(rot.quat[n])
                  /\ PositiveMultiple(rot.quat[n], call.quat.rows[n])

\* C6, amended: from_quaternion raises, and makes no Rotation, exactly when
\* the shape is neither (4,) nor (N, 4), or normalized is false and some row
\* has norm zero (one such row fails the whole batch); otherwise every row is
\* stored divided by its own norm when normalized is false, and as given
\* when normalized is true.
C6_QuaternionValidation ==
    call.op = "from_quaternion" =>
        /\ C6_RaisesExactly
        /\ ~C6_Rejected =>
              \A n \in DOMAIN call.quat.rows :
                  IF call.normalized THEN rot.quat[n] = call.quat.rows[n]
                  ELSE /\ UnitNorm(rot.quat[n])
                       /\ PositiveMultiple(rot.quat[n], call.quat.rows[n])

\* a batch with a zero row after a row that is not zero is rejected whole
C6_Witness ==
    /\ call.op = "from_quaternion" /\ ~call.normalized
    /\ Len(call.quat.rows) = 2
    /\ SumSq(call.quat.rows[1].num) > 1
    /\ SumSq(call.quat.rows[2].num) = 0
    /\ err = "ValueError:zero_norm" /\ ~rot.exists

\* C6, second witness state: an accepted batch of rows of different norms
C6_WitnessAccepted ==
    /\ call.op = "from_quaternion" /\ ~call.normalized
    /\ Len(call.quat.rows) = 2 /\ rot.exists
    /\ SumSq(call.quat.rows[1].num) # SumSq(call.quat.rows[2].num)

\* a stored row has norm 1; for a row held as a term: by sin^2 + cos^2 = 1
\* ("sin"), or up to the truncation of the Taylor scale ("taylor")
UnitRow(r) == IF IsExact(r) THEN UnitNorm(r) ELSE r.sym \in {"sin", "taylor"}

\* C5 as stated: every Rotation, whichever constructor made it, stores only
\* rows of norm 1, in every state that accessor calls reach.
C5_Original ==
    rot.exists => \A n \in DOMAIN rot.quat : UnitRow(rot.quat[n])

\* the rows from_quaternion(quat, normalized = True) was given do not all
\* have norm 1
TrustedNonUnit ==
    /\ call.op = "from_quaternion"
    /\ call.normalized
    /\ \E n \in DOMAIN call.quat.rows : ~UnitNorm(call.quat.rows[n])

\* C5, amended: every Rotation made by from_quaternion with normalized
\* false, by from_dcm, from_rotvec or from_euler, or by from_quaternion with
\* normalized true from rows of norm 1, stores only rows of norm 1, in every
\* state that as_quaternion, as_dcm and as_rotvec calls reach; with
\* normalized true the rows are stored as given, whatever their norm.
C5_UnitNormInvariant ==
    /\ (rot.exists /\ ~TrustedNonUnit) =>
          \A n \in DOMAIN rot.quat : UnitRow(rot.quat[n])
    /\ (rot.exists /\ call.op = "from_quaternion" /\ call.normalized) =>
          rot.quat = call.quat.rows

\* a batch normalized by from_quaternion, after an accessor call
C5_Witness ==
    /\ rot.exists /\ call.op = "from_quaternion" /\ ~call.normalized
    /\ Len(rot.quat) = 2
    /\ \E n \in DOMAIN call.quat.rows : ~UnitNorm(call.quat.rows[n])
    /\ ret.kind = "rotvec"

\* the squared norm of a rotation vector row is at most (1e-3)^2: in units
\* of 1e-4, at most 100; in units of pi, zero
AtMostMilli(v) ==
    IF v.unit = "e-4" THEN SumSq(v.c) <= 100 ELSE SumSq(v.c) = 0

\* C8: from_rotvec maps every zero row to the quaternion (0, 0, 0, 1) exactly;
\* a row of norm <= 1e-3 is scaled by the Taylor scale and one of norm > 1e-3
\* by sin(norm/2)/norm, each row by its own norm alone.
C8_ZeroRotvec ==
    (call.op = "from_rotvec" /\ rot.exists) =>
        /\ DOMAIN rot.quat = DOMAIN call.rotvec.rows
        /\ \A n \in DOMAIN call.rotvec.rows :
              LET v == call.rotvec.rows[n]
                  q == rot.quat[n]
              IN  /\ v.c = <<0, 0, 0>> => q = [num |-> <<0, 0, 0, 1>>, den2 |-> 1]
                  /\ AtMostMilli(v) <=> RotvecScale(v).f = "taylor"
                  /\ ~AtMostMilli(v) <=> RotvecScale(v).f = "sin_over_norm"
                  /\ (AtMostMilli(v) /\ v.c # <<0, 0, 0>>) =>
                        q = [sym |-> "taylor", c |-> v.c, unit |-> v.unit]
                  /\ ~AtMostMilli(v) =>
                        /\ IsExact(q) => UnitNorm(q)
                        /\ ~IsExact(q) => q = [sym |-> "sin", c |-> v.c, unit |-> v.unit]
                  /\ q = FromRotvec([shape |-> <<3>>, rows |-> <<v>>]).rot.quat[1]

\* a batch of a zero row and a row of norm above 1e-3
C8_Witness ==
    /\ call.op = "from_rotvec" /\ rot.exists
    /\ Len(call.rotvec.rows) = 2
    /\ call.rotvec.rows[1].c = <<0, 0, 0>>
    /\ ~AtMostMilli(call.rotvec.rows[2])
    /\ rot.quat[1] = [num |-> <<0, 0, 0, 1>>, den2 |-> 1]

\* C8, second witness state: a row of norm exactly 1e-3
C8_WitnessBoundary ==
    /\ call.op = "from_rotvec" /\ rot.exists
    /\ Len(call.rotvec.rows) = 1
    /\ call.rotvec.rows[1] = [c |-> <<6, 8, 0>>, unit |-> "e-4"]
    /\ rot.quat[1] = [sym |-> "taylor", c |-> <<6, 8, 0>>, unit |-> "e-4"]

\* the elementary rotation matrix about a lowercase axis, by q quarter turns
ElementaryRotation(axis, q) ==
    IF axis = "x"
    THEN [m |-> << <<1, 0, 0>>, <<0, CosQ(q), -SinQ(q)>>, <<0, SinQ(q), CosQ(q)>> >>,
          d |-> 1]
    ELSE IF axis = "y"
    THEN [m |-> << <<CosQ(q), 0, SinQ(q)>>, <<0, 1, 0>>, <<-SinQ(q), 0, CosQ(q)>> >>,
          d |-> 1]
    ELSE [m |-> << <<CosQ(q), -SinQ(q), 0>>, <<SinQ(q), CosQ(q), 0>>, <<0, 0, 1>> >>,
          d |-> 1]

\* the matrix product A B
MatrixProduct(A, B) ==
    [m |-> [i \in 1..3 |-> [k \in 1..3 |->
               A.m[i][1] * B.m[1][k] + A.m[i][2] * B.m[2][k] + A.m[i][3] * B.m[3][k]]],
     d |-> A.d * B.d]

\* the same rationals in both matrices
SameMatrix(A, B) ==
    \A i, j \in 1..3 : A.m[i][j] * B.d = B.m[i][j] * A.d

RECURSIVE ExtrinsicProduct(_, _, _)
\* R(axis_n) ... R(axis_2) R(axis_1) I
ExtrinsicProduct(axes, angle, n) ==
    IF n = 0 THEN Eye3
    ELSE MatrixProduct(ElementaryRotation(axes[n], angle[n]),
                       ExtrinsicProduct(axes, angle, n - 1))

RECURSIVE IntrinsicProduct(_, _, _)
\* I R(axis_1)^T R(axis_2)^T ... R(axis_n)^T, the axes in lowercase
IntrinsicProduct(axes, angle, n) ==
    IF n = 0 THEN Eye3
    ELSE MatrixProduct(IntrinsicProduct(axes, angle, n - 1),
                       Transpose(ElementaryRotation(Lower(axes[n]), angle[n])))

\* 1 to 3 characters, all of the class
AxisSequence(class, axes) ==
    Len(axes) \in 1..3 /\ \A i \in DOMAIN axes : axes[i] \in class

\* the rows (sequence, angle vector) of the last from_euler call: the one
\* pair of a str call, the pairs of a list call whose shapes agree
EulerRows ==
    IF call.op # "from_euler" THEN {}
    ELSE IF call.seq.str
    THEN IF Len(call.angles.shape) = 1
         THEN {[axes |-> call.seq.val, angle |-> call.angles.rows[1]]}
         ELSE {}
    ELSE IF call.angles.shape = <<Len(call.seq.val), 3>>
    THEN {[axes |-> call.seq.val[n], angle |-> call.angles.rows[n]] :
             n \in DOMAIN call.seq.val}
    ELSE {}

\* C3: for a sequence of 1 to 3 axes from {x, y, z} and as many angles,
\* _make_dcm_from_euler builds R(axis_n) ... R(axis_2) R(axis_1) I, and a
\* from_euler call on a str stores what from_dcm makes of that matrix.
C3_ExtrinsicComposition ==
    /\ \A e \in EulerRows :
          (AxisSequence({"x", "y", "z"}, e.axes) /\ Len(e.angle) = Len(e.axes)) =>
              /\ make_dcm_from_euler(e.axes, e.angle).ok
              /\ SameMatrix(make_dcm_from_euler(e.axes, e.angle).dcm,
                            ExtrinsicProduct(e.axes, e.angle, Len(e.axes)))
              /\ call.seq.str =>
                    /\ rot.exists /\ rot.single /\ err = "none"
                    /\ rot = FromDcm([shape |-> <<3, 3>>,
                                      rows |-> <<ExtrinsicProduct(e.axes, e.angle,
                                                                  Len(e.axes))>>]).rot

\* "zyx" with each angle a quarter turn, where the order of the product shows
C3_Witness ==
    /\ call.op = "from_euler" /\ call.seq = [str |-> TRUE, val |-> <<"z", "y", "x">>]
    /\ call.angles.rows = << <<1, 1, 1>> >>
    /\ rot.exists
    /\ ~SameMatrix(ExtrinsicProduct(<<"z", "y", "x">>, <<1, 1, 1>>, 3),
                   ExtrinsicProduct(<<"x", "y", "z">>, <<1, 1, 1>>, 3))

\* C2: for a sequence of 1 to 3 axes from {X, Y, Z} and as many angles,
\* _make_dcm_from_euler builds I R(axis_1)^T R(axis_2)^T ... R(axis_n)^T.
C2_IntrinsicComposition ==
    \A e \in EulerRows :
        (AxisSequence({"X", "Y", "Z"}, e.axes) /\ Len(e.angle) = Len(e.axes)) =>
            /\ make_dcm_from_euler(e.axes, e.angle).ok
            /\ SameMatrix(make_dcm_from_euler(e.axes, e.angle).dcm,
                          IntrinsicProduct(e.axes, e.angle, Len(e.axes)))

\* C2 for one axis alone, where the code and the product agree
C2_SingleAxis ==
    \A e \in EulerRows :
        (AxisSequence({"X", "Y", "Z"}, e.axes) /\ Len(e.angle) = 1 /\ Len(e.axes) = 1) =>
            SameMatrix(make_dcm_from_euler(e.axes, e.angle).dcm,
                       IntrinsicProduct(e.axes, e.angle, 1))

\* the elementary x-axis rotation by pi/2
RotX90 == [m |-> << <<1, 0, 0>>, <<0, 0, -1>>, <<0, 1, 0>> >>, d |-> 1]

\* C4: the matrix composed for "xyz" with angles (pi/2, 0, 0) is the x-axis
\* rotation by pi/2, and so is the matrix composed for "XYZ" with these angles.
C4_EulerExample ==
    \A e \in EulerRows :
        (e.axes \in {<<"x", "y", "z">>, <<"X", "Y", "Z">>} /\ e.angle = <<1, 0, 0>>) =>
            /\ make_dcm_from_euler(e.axes, e.angle).ok
            /\ SameMatrix(make_dcm_from_euler(e.axes, e.angle).dcm, RotX90)

\* C4, the half that holds: "xyz" with angles (pi/2, 0, 0)
C4_ExtrinsicExample ==
    \A e \in EulerRows :
        (e.axes = <<"x", "y", "z">> /\ e.angle = <<1, 0, 0>>) =>
            SameMatrix(make_dcm_from_euler(e.axes, e.angle).dcm, RotX90)

\* an axis string the claim calls valid
ValidAxes(axes) ==
    AxisSequence({"x", "y", "z"}, axes) \/ AxisSequence({"X", "Y", "Z"}, axes)

\* C7: from_euler on a str fails with a shape error when the angles do not
\* have shape (len(seq),), and with a sequence error when they do and the
\* string is not 1 to 3 characters all from {x, y, z} or all from {X, Y, Z};
\* on a list, an invalid row fails the whole call; a failed call returns no
\* Rotation.
C7_EulerValidation ==
    call.op = "from_euler" =>
        /\ err # "none" => ~rot.exists
        /\ call.seq.str =>
              /\ call.angles.shape # <<Len(call.seq.val)>> => err = "ValueError:shape"
              /\ (call.angles.shape = <<Len(call.seq.val)>> /\ ~ValidAxes(call.seq.val))
                    => err = "ValueError:sequence"
        /\ ~call.seq.str =>
              /\ call.angles.shape # <<Len(call.seq.val), 3>> =>
                    err \in {"ValueError:shape", "ValueError:sequence"}
              /\ \A n \in DOMAIN call.seq.val :
                    (call.angles.shape = <<Len(call.seq.val), 3>>
                     /\ (~ValidAxes(call.seq.val[n]) \/ Len(call.seq.val[n]) # 3))
                        => err \in {"ValueError:shape", "ValueError:sequence"}

\* C7 without the exception raised: every invalid call fails, whatever it
\* raises, and returns no Rotation
C7_InvalidCallsFail ==
    call.op = "from_euler" =>
        /\ err # "none" => ~rot.exists
        /\ (call.seq.str /\ (call.angles.shape # <<Len(call.seq.val)>>
                             \/ ~ValidAxes(call.seq.val))) => err # "none"
        /\ ~call.seq.str =>
              \A n \in DOMAIN call.seq.val :
                  (~ValidAxes(call.seq.val[n]) \/ Len(call.seq.val[n]) # 3)
                      => err # "none"

====
